---- MODULE Spec2Model ----
(***************************************************************************)
(* Task lifecycle engine of ai_shell (src/task_manager.py): TaskManager,   *)
(* BackgroundTask, the per-task watcher thread and stop_task.              *)
(*                                                                         *)
(* A task object is identified by its index in `tasks` (Python object      *)
(* identity); the registry background_tasks maps task ids to task objects  *)
(* and keeps dict insertion order.                                         *)
(***************************************************************************)
EXTENDS Integers, Sequences, FiniteSets, TLC

\* ---- bounds of the model ------------------------------------------------
\* number of start_monitoring_task_sync calls
MaxTasks == 2
\* number of values str(uuid.uuid4())[:8] can take in the model
MaxIds == 2
\* number of callers of stop_task / shutdown
MaxCallers == 2
\* number of lines the task processes write to their log files, in total
MaxLines == 1
\* number of lines the watchers may copy beyond max_log_lines + MaxLines
MaxRereads == 2
\* longest script body, in pieces of text
MaxBody == 4
\* longest command, in words
MaxWords == 2
\* audit-log entries written by the task lifecycle, one-shot executions
MaxWrites == 3
MaxExecs == 1
\* largest line count asked of get_task_output / get_task_errors
MaxQueryLines == 2

\* ---- program constants --------------------------------------------------
max_log_lines == 1000

TaskIds == 1..MaxIds
Callers == 1..MaxCallers

\* Popen.returncode of a process that exits on its own (the script body may
\* exit with any status), of one that receives SIGTERM (the trap of lines
\* 249-254 runs `exit 0`) and of one killed by SIGKILL (minus the signal number)
SIGKILL == 9
SelfExitCodes == {0, 1}
TermExitCodes == {0}
KillExitCode == 0 - SIGKILL

VARIABLES
    tasks,               \* Seq of BackgroundTask objects, by creation order
    os_proc,             \* Seq: the OS process of each task object
    background_tasks,    \* the registry: Seq of [id, task], dict insertion order
    script_files,        \* set of task objects whose temporary script is on disk
    watcher,             \* Seq: position of each task's monitor thread
    out_file,            \* [TaskIds -> Seq of lines]: task_<id>/output.log
    err_file,            \* [TaskIds -> Seq of lines]: task_<id>/error.log
    shutdown_requested,  \* TaskManager._shutdown_requested
    calls,               \* [Callers -> the stop_task / shutdown call of the caller]
    written,             \* number of lines the task processes wrote since Init
    start_log,           \* history: the outcome of every start call
    out_hist,            \* history: every line appended to a task's output_log
    err_hist,            \* history: every line appended to a task's error_log
    script_content,      \* the script body the front end passes to start
    scripts,             \* Seq: the text of the script file written for each task
    max_log_file_size,   \* TaskManager.max_log_file_size, in bytes
    max_log_files,       \* TaskManager.max_log_files
    main_log,            \* ai_shell.log: None, or Some(the entries in the file)
    rotated,             \* [generation -> ai_shell.log.<generation>], as main_log
    audit_count,         \* number of _write_to_main_log calls so far
    exec,                \* the execute_command call in progress, or the last one
    verdict,             \* the last call of _determine_command_success
    reply                \* the last call of get_task_output / get_task_errors

\* the state of the audit log, of one-shot execution and of the queries,
\* which the task lifecycle neither reads nor writes
side_vars == <<script_content, max_log_file_size, max_log_files, main_log,
               rotated, audit_count, exec, verdict, reply>>

vars == <<tasks, os_proc, background_tasks, script_files, watcher, out_file,
          err_file, shutdown_requested, calls, written, start_log, out_hist,
          err_hist, scripts, side_vars>>

Objs == 1..Len(tasks)

\* ---- helpers on Python values -------------------------------------------
None == <<>>
Some(x) == <<x>>

\* a line of a log file: its text (the position it was written at) and
\* whether it carries leading or trailing whitespace, newline included
RawLine(k, w) == [text |-> k, ws |-> w]
\* str.strip()
Strip(line) == [line EXCEPT !.ws = FALSE]

\* ---- the registry (a dict) ----------------------------------------------
Keys(reg) == {reg[i].id : i \in 1..Len(reg)}
KeyList(reg) == [i \in 1..Len(reg) |-> reg[i].id]
Has(reg, id) == id \in Keys(reg)
Pos(reg, id) == CHOOSE i \in 1..Len(reg) : reg[i].id = id
Lookup(reg, id) == reg[Pos(reg, id)].task
Values(reg) == {reg[i].task : i \in 1..Len(reg)}
\* reg[id] = task
Store(reg, id, task) ==
    IF Has(reg, id)
    THEN [reg EXCEPT ![Pos(reg, id)] = [id |-> id, task |-> task]]
    ELSE Append(reg, [id |-> id, task |-> task])
\* del reg[id]
Delete(reg, id) ==
    LET p == Pos(reg, id)
    IN  [i \in 1..(Len(reg) - 1) |-> IF i < p THEN reg[i] ELSE reg[i + 1]]

\* ---- BackgroundTask.__init__ --------------------------------------------
NewTask(id) ==
    [task_id |-> id, status |-> "created", process |-> "None",
     returncode |-> None, script_file |-> 0,
     output_log |-> <<>>, error_log |-> <<>>]

\* A caller's call: pc is its position in stop_task (or between the stop_task
\* calls of shutdown), task_id and task are stop_task's argument and local,
\* queue is what is left of list(self.background_tasks.keys()) in shutdown.
\* While stop_task runs: signals (the signals it has sent, in order) and
\* cleanup (what it did to the script file). History of the last stop_task:
\* ret (what it returned or raised), deleted (the task whose registry entry
\* it deleted), after (the callers that had returned when it was entered).
IdleCall ==
    [pc |-> "idle", mode |-> "none", task_id |-> 0, task |-> 0, ret |-> "none",
     signals |-> <<>>, cleanup |-> "none", deleted |-> 0, queue |-> <<>>,
     after |-> {}]

\* ---- _create_script_file (lines 227-284) --------------------------------
\* A script is a sequence of pieces of text. The reserved token "PLACEHOLDER"
\* is the piece "PLACE" directly followed by the piece "HOLDER", so that a
\* body can hold the halves of the token apart as well as the token itself.
ScriptPieces == {"PLACE", "HOLDER", "echo", "\n"}
Bodies == UNION {[1..n -> ScriptPieces] : n \in 0..MaxBody}

\* the token starts at position i of text
TokenAt(text, i) ==
    /\ i \in 1..(Len(text) - 1)
    /\ text[i] = "PLACE"
    /\ text[i + 1] = "HOLDER"

\* str(uuid.uuid4())[:8] (line 184): hexadecimal digits
IdText(id) == ToString(id)

\* text.replace("PLACEHOLDER", new, 1)
RECURSIVE ReplaceFirst(_, _)
ReplaceFirst(text, new) ==
    IF text = <<>> THEN <<>>
    ELSE IF TokenAt(text, 1) THEN new \o SubSeq(text, 3, Len(text))
    ELSE <<Head(text)>> \o ReplaceFirst(Tail(text), new)

\* text.replace("PLACEHOLDER", new) (line 234): every occurrence, from left
\* to right, the text put in is not searched again
RECURSIVE Replace(_, _)
Replace(text, new) ==
    IF text = <<>> THEN <<>>
    ELSE IF TokenAt(text, 1)
         THEN new \o Replace(SubSeq(text, 3, Len(text)), new)
         ELSE <<Head(text)>> \o Replace(Tail(text), new)

\* _indent_script(script, 8) (lines 369-372): the indent before every line
Indent == "        "
RECURSIVE IndentLines(_)
IndentLines(script) ==
    IF script = <<>> THEN <<>>
    ELSE IF Head(script) = "\n" THEN <<"\n", Indent>> \o IndentLines(Tail(script))
    ELSE <<Head(script)>> \o IndentLines(Tail(script))
IndentScript(script) == <<Indent>> \o IndentLines(script)

\* the pieces of wrapper_script (lines 237-268) that carry the task id, and
\* the body between the braces of the main loop
WrapperHead(id) ==
    <<"# Task: ", IdText(id), "\n", "TASK_ID=", IdText(id), "\n",
      "LOG_DIR=", "task_", IdText(id), "\n", "{", "\n">>
WrapperTail == <<"\n", "}">>
CreateScriptFile(id, content) ==
    WrapperHead(id) \o IndentScript(Replace(content, <<IdText(id)>>)) \o WrapperTail

\* ---- _determine_command_success (lines 286-350) --------------------------
\* A command is a sequence of words, written with one space between them;
\* the word "" makes leading, trailing and doubled spaces.
Words == {"diff", "grep", "find", "test", "[", "which", "ls", "|", "GREP",
          "latest", ""}
Commands == UNION {[1..n -> Words] : n \in 0..MaxWords}
ReturnCodes == {0, 1, 2, 3}
Outputs == {"", " ", "out"}
Errors == {"", " ", "err", "x: No such file or directory",
           "find: x: Permission denied"}

\* str.lower() of a word and of a text
LowerWord(w) == IF w = "GREP" THEN "grep" ELSE w
LowerText(t) ==
    CASE t = "x: No such file or directory" -> "x: no such file or directory"
      [] t = "find: x: Permission denied" -> "find: x: permission denied"
      [] OTHER -> t
\* str.strip() of a text
StripText(t) == IF t = " " THEN "" ELSE t
\* phrase in t, for the words and texts above
WordContains(w, k) == k # "" /\ (w = k \/ (w = "latest" /\ k = "test"))
TextContains(t, phrase) ==
    \/ t = phrase
    \/ t = "x: no such file or directory" /\ phrase = "no such file"
    \/ t = "find: x: permission denied" /\ phrase = "permission denied"

\* command.lower() and command.strip()
LowerCommand(command) == [i \in 1..Len(command) |-> LowerWord(command[i])]
RECURSIVE LStrip(_)
LStrip(command) ==
    IF command # <<>> /\ Head(command) = "" THEN LStrip(Tail(command))
    ELSE command
RECURSIVE RStrip(_)
RStrip(command) ==
    IF command # <<>> /\ command[Len(command)] = ""
    THEN RStrip(SubSeq(command, 1, Len(command) - 1))
    ELSE command
StripCommand(command) == RStrip(LStrip(command))
\* k in command, command.startswith(k)
InCommand(k, command) == \E i \in 1..Len(command) : WordContains(command[i], k)
StartsWith(command, k) == command # <<>> /\ Head(command) = k

\* _is_complex_command (lines 352-367): of its patterns the words above
\* hold the pipe only
IsComplexCommand(command) == InCommand("|", LowerCommand(command))

\* Each family's rule gives "true" or "false" where the code returns, and
\* "next" where the code falls through to the rules below it.
\* the diff rule with return code 2 always a failure
DiffRuleStrict(command_lower, return_code, output, error) ==
    IF ~InCommand("diff", command_lower) THEN "next"
    ELSE IF return_code \in {0, 1} THEN "true"
    ELSE IF return_code = 2 THEN "false"
    ELSE "next"

DiffRule(command_lower, return_code, output, error) ==
    IF ~InCommand("diff", command_lower) THEN "next"
    ELSE IF return_code \in {0, 1} THEN "true"
    ELSE IF return_code = 2
         THEN IF \/ StripText(error) = ""
                 \/ ~TextContains(LowerText(error), "no such file")
              THEN "true" ELSE "false"
    ELSE "next"

\* the grep rule with return code 2 never a failure
GrepRuleLenient(command_lower, return_code, output, error) ==
    IF ~InCommand("grep", command_lower) THEN "next"
    ELSE IF return_code \in {0, 1, 2} THEN "true"
    ELSE "next"

GrepRule(command_lower, return_code, output, error) ==
    IF ~InCommand("grep", command_lower) THEN "next"
    ELSE IF return_code \in {0, 1} THEN "true"
    ELSE IF return_code = 2
         THEN IF StripText(error) = "" THEN "true" ELSE "false"
    ELSE "next"

FindRule(command_lower, return_code, output, error) ==
    IF ~InCommand("find", command_lower) THEN "next"
    ELSE IF return_code \in {0, 1} THEN "true"
    ELSE IF /\ TextContains(LowerText(error), "permission denied")
            /\ StripText(output) # ""
         THEN "true"
    ELSE "next"

\* no rule for test commands
TestRuleNever(command_lower, return_code, output, error) == "next"

TestRule(command_lower, return_code, output, error) ==
    IF StartsWith(command_lower, "[") \/ StartsWith(command_lower, "test")
    THEN "true" ELSE "next"

acceptable_nonzero_commands ==
    {"which", "whereis", "ping", "curl", "wget", "sort", "uniq"}
AllowRule(command_lower, return_code, output, error) ==
    IF \E cmd \in acceptable_nonzero_commands :
          /\ InCommand(cmd, command_lower)
          /\ \/ return_code \in {0, 1}
             \/ StripText(output) # "" /\ StripText(error) = ""
    THEN "true" ELSE "next"

\* the complex rule with any stderr a failure
ComplexRuleStrict(command, return_code, output, error) ==
    IF ~IsComplexCommand(command) THEN "next"
    ELSE IF StripText(error) = "" THEN "true" ELSE "false"

\* lines 341-347: a complex command without stderr, with or without output
ComplexRule(command, return_code, output, error) ==
    IF IsComplexCommand(command) /\ StripText(error) = ""
    THEN "true" ELSE "next"

\* the rules of the families from the first to the last, a rule that falls
\* through handing over to the next
RECURSIVE FirstVerdict(_)
FirstVerdict(rules) ==
    IF rules = <<>> THEN "next"
    ELSE IF Head(rules) # "next" THEN Head(rules)
    ELSE FirstVerdict(Tail(rules))

DetermineCommandSuccess(command, return_code, output, error) ==
    LET command_lower == StripCommand(LowerCommand(command))
        v == FirstVerdict(<<DiffRule(command_lower, return_code, output, error),
                            GrepRule(command_lower, return_code, output, error),
                            FindRule(command_lower, return_code, output, error),
                            TestRule(command_lower, return_code, output, error),
                            AllowRule(command_lower, return_code, output, error),
                            ComplexRule(command, return_code, output, error)>>)
    IN  IF v = "next" THEN return_code = 0 ELSE v = "true"

\* ---- the audit log (lines 563-616) ----------------------------------------
\* An entry of ai_shell.log: its kind, the execute_command call it belongs
\* to (0: none), its length in bytes and its number in the order of writing.
\* The entries left by earlier runs have kind "OLD" and the numbers below 1.
EntryBytes == {64, 128}
Entry(kind, call, bytes, n) ==
    [kind |-> kind, call |-> call, bytes |-> bytes, n |-> n]
OldEntry(g, bytes) == Entry("OLD", 0, bytes, 0 - g)

\* log_file.stat().st_size
RECURSIVE Size(_)
Size(entries) ==
    IF entries = <<>> THEN 0 ELSE Head(entries).bytes + Size(Tail(entries))

\* the for loop of lines 602-608, from generation i down to generation 1
RECURSIVE ShiftGenerations(_, _)
ShiftGenerations(gens, i) ==
    IF i < 1 THEN gens
    ELSE ShiftGenerations(IF gens[i] # None
                          THEN [gens EXCEPT ![i + 1] = gens[i], ![i] = None]
                          ELSE gens,
                          i - 1)

\* the rotation without the for loop: the current log replaces generation 1
RotateWithoutShift(log, gens, size, files) ==
    IF log # None /\ Size(log[1]) > size
    THEN [main |-> None, gens |-> [gens EXCEPT ![1] = log]]
    ELSE [main |-> log, gens |-> gens]

\* _rotate_log_if_needed (lines 597-616): the current log and the rotated
\* generations after the call
RotateLogIfNeeded(log, gens, size, files) ==
    IF log # None /\ Size(log[1]) > size
    THEN [main |-> None,
          gens |-> [ShiftGenerations(gens, files - 1) EXCEPT ![1] = log]]
    ELSE [main |-> log, gens |-> gens]

\* _write_to_main_log (lines 584-595) on the audit log a: the entry is
\* appended, then the rotation is considered
WriteToMainLog(a, kind, call, bytes) ==
    LET e == Entry(kind, call, bytes, a.count + 1)
        appended == Some(IF a.main = None THEN <<e>> ELSE a.main[1] \o <<e>>)
        r == RotateLogIfNeeded(appended, a.gens, a.size, a.files)
    IN  [a EXCEPT !.main = r.main, !.gens = r.gens, !.count = a.count + 1]

\* The chain of lines 592, 616, 582: _write_to_main_log calls
\* _rotate_log_if_needed, whose except branch calls _log_error, which calls
\* _write_to_main_log. Each turn of the chain adds these three frames to the
\* interpreter's stack, which holds RecursionLimit frames (the default of
\* sys.getrecursionlimit()) before a call raises RecursionError.
RecursionLimit == 1000
FramesPerCycle == 3
\* the length of the entry of line 616, "Failed to rotate log file ..."
RotateErrorBytes == 128

\* the turns of the chain that fit on the stack above the first call
ChainTurns == (RecursionLimit \div FramesPerCycle) - 1

\* _write_to_main_log while every rename in the log directory raises (the
\* first one of lines 602-614 does, before any file has changed): the entry
\* is appended; a file above the threshold makes the rotation raise, and the
\* except branch of line 616 logs the failure through _write_to_main_log
\* again. Every turn leaves the file longer, so the rotation raises at each
\* turn until a call raises RecursionError, which line 593 swallows.
WriteToMainLogRotateFails(a, kind, call, bytes) ==
    LET e == Entry(kind, call, bytes, a.count + 1)
        appended == IF a.main = None THEN <<e>> ELSE a.main[1] \o <<e>>
        turns == IF Size(appended) > a.size THEN ChainTurns ELSE 0
        logged == [i \in 1..turns |->
                      Entry("ERROR", 0, RotateErrorBytes, a.count + 1 + i)]
    IN  [a EXCEPT !.main = Some(appended \o logged),
                  !.count = a.count + 1 + turns]

\* ---- execute_command (lines 99-169) --------------------------------------
\* the commands given to execute_command
ExecCommands == {<<"ls">>, <<"grep">>, <<"diff", "|", "grep">>}
ExecOutputs == {"", "out"}
ExecErrors == {"", "err"}
\* the result dict
CommandResult(success, output, error, return_code) ==
    [success |-> success, output |-> output, error |-> error,
     return_code |-> return_code]
\* The call: pc is its position, call its number, command and bytes its
\* argument and the length of the log entries that quote it, exit what the
\* process ended with, path the way the call took, signals the signals the
\* call has sent to the process, in order, and result what it returned.
IdleExec ==
    [pc |-> "idle", call |-> 0, command |-> <<>>, bytes |-> 0, path |-> "none",
     exit |-> None, signals |-> <<>>, result |-> None]

\* ---- get_task_output, get_task_errors (lines 543-561) --------------------
\* "\n" between two lines of a joined text (a line holds no newline: the
\* watcher strips the lines it copies)
Newline == [text |-> 0 - 1, ws |-> TRUE]
\* "\n".join(lines)
RECURSIVE Join(_)
Join(lines) ==
    IF lines = <<>> THEN <<>>
    ELSE IF Len(lines) = 1 THEN lines
    ELSE <<Head(lines), Newline>> \o Join(Tail(lines))
\* log[start:]
SliceFrom(log, start) ==
    LET from == IF start < 0
                THEN (IF Len(log) + start < 0 THEN 0 ELSE Len(log) + start)
                ELSE (IF start > Len(log) THEN Len(log) ELSE start)
    IN  SubSeq(log, from + 1, Len(log))
\* log[-lines:] if log else []
RecentLines(log, lines) == IF log # <<>> THEN SliceFrom(log, 0 - lines) ELSE <<>>
\* the last lines lines of log
LastLines(log, lines) ==
    SubSeq(log, Len(log) - (IF lines < Len(log) THEN lines ELSE Len(log)) + 1,
           Len(log))
\* lines: any count up to MaxQueryLines and the default of 20
DefaultLines == 20
QueryLines == (0..MaxQueryLines) \cup {DefaultLines}
NoReply == [op |-> "none", task_id |-> 0, lines |-> 0, result |-> None]

\* the classifier has not been called
NoVerdict ==
    [command |-> <<>>, return_code |-> 0, output |-> "", error |-> "",
     called |-> FALSE, success |-> FALSE]

\* the script body of the front end's monitoring requests (src/ai_shell.py,
\* line 476, passes "PLACEHOLDER" for the task id the body refers to)
DefaultBody == <<"echo", "PLACE", "HOLDER">>

\* the audit log, one-shot execution and the queries after __init__
\* (lines 58-86) in a fresh log directory
InitLogDirectory ==
    /\ max_log_file_size = 10 * 1024 * 1024
    /\ max_log_files = 5
    /\ main_log = None
    /\ rotated = [g \in 1..(max_log_files + 1) |-> None]
    /\ audit_count = 0

InitSide ==
    /\ InitLogDirectory
    /\ exec = IdleExec
    /\ verdict = NoVerdict
    /\ reply = NoReply

\* no task has been started
InitTasks ==
    /\ tasks = <<>>
    /\ os_proc = <<>>
    /\ background_tasks = <<>>
    /\ script_files = {}
    /\ watcher = <<>>
    /\ out_file = [i \in TaskIds |-> <<>>]
    /\ err_file = [i \in TaskIds |-> <<>>]
    /\ shutdown_requested = FALSE
    /\ calls = [c \in Callers |-> IdleCall]
    /\ written = 0
    /\ start_log = <<>>
    /\ out_hist = <<>>
    /\ err_hist = <<>>
    /\ scripts = <<>>

Init ==
    /\ InitTasks
    /\ script_content = DefaultBody
    /\ InitSide

\* ---- start_monitoring_task_sync (lines 172-225) ---------------------------
\* the line appended to task.error_log by the except branch (line 223)
StartErrorLine == [text |-> 0, ws |-> FALSE]

\* The call succeeds: script written, process spawned, task registered,
\* monitor thread started, task id returned.
StartReturns(id) ==
    LET o == Len(tasks) + 1
    IN  /\ Len(tasks) < MaxTasks
        /\ tasks' = Append(tasks, [NewTask(id) EXCEPT !.script_file = o,
                                       !.process = "Popen", !.status = "running"])
        /\ os_proc' = Append(os_proc, [state |-> "alive", code |-> 0])
        /\ script_files' = script_files \cup {o}
        /\ background_tasks' = Store(background_tasks, id, o)
        /\ watcher' = Append(watcher, "loop")
        /\ start_log' = Append(start_log, [task |-> o, id |-> id, result |-> "returned"])
        /\ out_hist' = Append(out_hist, <<>>)
        /\ err_hist' = Append(err_hist, <<>>)
        /\ scripts' = Append(scripts, Some(CreateScriptFile(id, script_content)))
        /\ UNCHANGED <<side_vars, out_file, err_file, shutdown_requested, calls, written>>

\* The call raises RuntimeError. stage = "script": _create_script_file raises
\* before the temporary file exists (mkdir, line 231); "spawn": Popen raises
\* (line 195); "thread": Thread.start raises in _start_task_monitoring
\* (line 424), after the task was stored at line 208.
StartRaises(id, stage) ==
    LET o == Len(tasks) + 1
        t0 == NewTask(id)
        t1 == IF stage = "script" THEN t0 ELSE [t0 EXCEPT !.script_file = o]
        t2 == IF stage = "thread" THEN [t1 EXCEPT !.process = "Popen"] ELSE t1
    IN  /\ Len(tasks) < MaxTasks
        /\ tasks' = Append(tasks, [t2 EXCEPT !.status = "error",
                                             !.error_log = <<StartErrorLine>>])
        /\ os_proc' = Append(os_proc,
              [state |-> IF stage = "thread" THEN "alive" ELSE "none", code |-> 0])
        /\ script_files' = IF stage = "script" THEN script_files
                           ELSE script_files \cup {o}
        /\ background_tasks' = IF stage = "thread"
                               THEN Store(background_tasks, id, o)
                               ELSE background_tasks
        /\ watcher' = Append(watcher, "none")
        /\ start_log' = Append(start_log, [task |-> o, id |-> id, result |-> "raised"])
        /\ out_hist' = Append(out_hist, <<>>)
        /\ err_hist' = Append(err_hist, <<StartErrorLine>>)
        /\ scripts' = Append(scripts, IF stage = "script" THEN None
                                      ELSE Some(CreateScriptFile(id, script_content)))
        /\ UNCHANGED <<side_vars, out_file, err_file, shutdown_requested, calls, written>>

Start ==
    \E id \in TaskIds :
        \/ StartReturns(id)
        \/ \E stage \in {"script", "spawn", "thread"} : StartRaises(id, stage)

\* ---- the task's process (the wrapper script, lines 237-268) ---------------
\* the process appends a line to output.log or error.log of its task directory
ProcWrites(o) ==
    /\ os_proc[o].state = "alive"
    /\ written < MaxLines
    /\ written' = written + 1
    /\ LET id == tasks[o].task_id
       IN  \E w \in BOOLEAN :
             \/ /\ out_file' = [out_file EXCEPT
                        ![id] = Append(@, RawLine(Len(@) + 1, w))]
                /\ UNCHANGED err_file
             \/ /\ err_file' = [err_file EXCEPT
                        ![id] = Append(@, RawLine(Len(@) + 1, w))]
                /\ UNCHANGED out_file
    /\ UNCHANGED <<scripts, side_vars, tasks, os_proc, background_tasks, script_files, watcher,
                   shutdown_requested, calls, start_log, out_hist, err_hist>>

\* the process exits on its own
ProcExits(o) ==
    /\ os_proc[o].state = "alive"
    /\ \E c \in SelfExitCodes :
          os_proc' = [os_proc EXCEPT ![o] = [state |-> "exited", code |-> c]]
    /\ UNCHANGED <<scripts, side_vars, tasks, background_tasks, script_files, watcher, out_file,
                   err_file, shutdown_requested, calls, written, start_log,
                   out_hist, err_hist>>

\* ---- _read_new_log_lines (lines 429-446) ----------------------------------
\* the for loop of lines 438-443 over new_lines
RECURSIVE AppendLines(_, _)
AppendLines(log_list, new_lines) ==
    IF new_lines = <<>> THEN log_list
    ELSE LET appended == Append(log_list, Strip(Head(new_lines)))
         IN  AppendLines(IF Len(appended) > max_log_lines
                         THEN Tail(appended) ELSE appended,
                         Tail(new_lines))

\* new_lines = lines[len(log_list):]
NewLines(lines, log_list) ==
    SubSeq(lines, Len(log_list) + 1, Len(lines))

\* the loop with log_list.pop() for log_list.pop(0)
RECURSIVE AppendLinesPopLast(_, _)
AppendLinesPopLast(log_list, new_lines) ==
    IF new_lines = <<>> THEN log_list
    ELSE LET appended == Append(log_list, Strip(Head(new_lines)))
         IN  AppendLinesPopLast(IF Len(appended) > max_log_lines
                                THEN SubSeq(appended, 1, Len(appended) - 1)
                                ELSE appended,
                                Tail(new_lines))

ReadNewLogLinesPopLast(lines, log_list) ==
    AppendLinesPopLast(log_list, NewLines(lines, log_list))

ReadNewLogLines(lines, log_list) ==
    AppendLines(log_list, NewLines(lines, log_list))

StripAll(lines) == [i \in 1..Len(lines) |-> Strip(lines[i])]

\* ---- the monitor thread (lines 376-416) -----------------------------------
\* One evaluation of the while condition (line 381) and, when the process is
\* still running, one pass of the loop body (lines 382-404).
WatcherPoll(o) ==
    /\ watcher[o] = "loop"
    /\ Len(out_hist[o]) + Len(err_hist[o]) < max_log_lines + MaxLines + MaxRereads
    /\ LET id == tasks[o].task_id
       IN  IF os_proc[o].state = "exited"
           THEN \* poll() reaps the process and sets returncode
                /\ tasks' = [tasks EXCEPT ![o].returncode = Some(os_proc[o].code)]
                /\ watcher' = [watcher EXCEPT ![o] = "finish"]
                /\ UNCHANGED <<out_hist, err_hist>>
           ELSE IF shutdown_requested
           THEN /\ watcher' = [watcher EXCEPT ![o] = "finish"]
                /\ UNCHANGED <<tasks, out_hist, err_hist>>
           ELSE /\ tasks' = [tasks EXCEPT
                      ![o].output_log = ReadNewLogLines(out_file[id], @),
                      ![o].error_log = ReadNewLogLines(err_file[id], @)]
                /\ out_hist' = [out_hist EXCEPT
                      ![o] = @ \o StripAll(NewLines(out_file[id], tasks[o].output_log))]
                /\ err_hist' = [err_hist EXCEPT
                      ![o] = @ \o StripAll(NewLines(err_file[id], tasks[o].error_log))]
                /\ UNCHANGED watcher
    /\ UNCHANGED <<scripts, side_vars, os_proc, background_tasks, script_files, out_file, err_file,
                   shutdown_requested, calls, written, start_log>>

\* lines 406-412: the status the watcher records after the loop
FinishedStatus(return_code) ==
    IF return_code = Some(0) THEN "stopped" ELSE "error"

\* lines 406-412 with the finished task dropped from the registry
WatcherFinishRemoves(o) ==
    /\ watcher[o] = "finish"
    /\ watcher' = [watcher EXCEPT ![o] = "done"]
    /\ tasks' = [tasks EXCEPT ![o].status = FinishedStatus(tasks[o].returncode)]
    /\ background_tasks' = IF Has(background_tasks, tasks[o].task_id)
                           THEN Delete(background_tasks, tasks[o].task_id)
                           ELSE background_tasks
    /\ UNCHANGED <<scripts, side_vars, os_proc, script_files, out_file, err_file,
                   shutdown_requested, calls, written, start_log, out_hist,
                   err_hist>>

WatcherFinish(o) ==
    /\ watcher[o] = "finish"
    /\ watcher' = [watcher EXCEPT ![o] = "done"]
    /\ tasks' = IF tasks[o].process # "None"
                THEN [tasks EXCEPT ![o].status = FinishedStatus(tasks[o].returncode)]
                ELSE tasks
    /\ UNCHANGED <<scripts, side_vars, os_proc, background_tasks, script_files, out_file, err_file,
                   shutdown_requested, calls, written, start_log, out_hist,
                   err_hist>>
\* ---- stop_task (lines 448-521) --------------------------------------------
\* the call returns `r` (or raises, r = "KeyError") to its caller
Returns(call, r) ==
    [call EXCEPT !.ret = r, !.signals = <<>>, !.cleanup = "none",
                 !.pc = IF call.mode = "shutdown" /\ r # "KeyError"
                        THEN "next" ELSE "done"]

\* stop_task without the membership test of lines 450-452
EnterUnchecked(call, id) ==
    [call EXCEPT !.task_id = id, !.task = 0, !.ret = "none",
                 !.signals = <<>>, !.cleanup = "none", !.deleted = 0,
                 !.after = {d \in Callers : calls[d].pc = "done"},
                 !.pc = "lookup"]

\* lines 450-452: the membership test
Enter(call, id) ==
    LET c0 == [call EXCEPT !.task_id = id, !.task = 0, !.ret = "none",
                           !.signals = <<>>, !.cleanup = "none", !.deleted = 0,
                           !.after = {d \in Callers : calls[d].pc = "done"}]
    IN  IF ~Has(background_tasks, id)
        THEN Returns(c0, "False")
        ELSE [c0 EXCEPT !.pc = "lookup"]

StopCall(c, id) ==
    /\ calls[c].pc = "idle"
    /\ calls' = [calls EXCEPT ![c] = Enter([calls[c] EXCEPT !.mode = "stop"], id)]
    /\ UNCHANGED <<scripts, side_vars, tasks, os_proc, background_tasks, script_files, watcher,
                   out_file, err_file, shutdown_requested, written, start_log,
                   out_hist, err_hist>>

\* line 454: task = self.background_tasks[task_id], outside the try block
StopLookup(c) ==
    /\ calls[c].pc = "lookup"
    /\ calls' = [calls EXCEPT ![c] =
          IF Has(background_tasks, calls[c].task_id)
          THEN [@ EXCEPT !.task = Lookup(background_tasks, calls[c].task_id),
                         !.pc = "poll"]
          ELSE Returns(@, "KeyError")]
    /\ UNCHANGED <<scripts, side_vars, tasks, os_proc, background_tasks, script_files, watcher,
                   out_file, err_file, shutdown_requested, written, start_log,
                   out_hist, err_hist>>

\* line 459 without the poll: every task with a process handle is signalled
StopPollSkipsCheck(c) ==
    LET o == calls[c].task
    IN  /\ calls[c].pc = "poll"
        /\ calls' = [calls EXCEPT ![c].pc =
              IF tasks[o].process = "None" THEN "cleanup" ELSE "killpg"]
        /\ UNCHANGED <<scripts, side_vars, tasks, os_proc, background_tasks, script_files, watcher, out_file,
                       err_file, shutdown_requested, written, start_log,
                       out_hist, err_hist>>

\* line 459: task.process and task.process.poll() is None
StopPoll(c) ==
    LET o == calls[c].task
    IN  /\ calls[c].pc = "poll"
        /\ IF tasks[o].process = "None"
           THEN /\ calls' = [calls EXCEPT ![c].pc = "cleanup"]
                /\ UNCHANGED tasks
           ELSE IF os_proc[o].state = "exited"
           THEN /\ tasks' = [tasks EXCEPT ![o].returncode = Some(os_proc[o].code)]
                /\ calls' = [calls EXCEPT ![c].pc = "cleanup"]
           ELSE /\ calls' = [calls EXCEPT ![c].pc = "killpg"]
                /\ UNCHANGED tasks
        /\ UNCHANGED <<scripts, side_vars, os_proc, background_tasks, script_files, watcher, out_file,
                       err_file, shutdown_requested, written, start_log,
                       out_hist, err_hist>>

\* line 466: os.killpg(pid, signal.SIGTERM). The group is signalled, or the
\* call raises PermissionError, or, the process having exited since line 459,
\* the signal reaches what is left of the group (to no effect) or the call
\* raises ProcessLookupError (the watcher's poll has reaped the process);
\* both errors lead to line 484.
StopKillpg(c) ==
    LET o == calls[c].task
    IN  /\ calls[c].pc = "killpg"
        /\ \/ /\ os_proc[o].state = "alive"
              /\ calls' = [calls EXCEPT ![c].pc = "wait",
                                 ![c].signals = Append(@, "killpg SIGTERM")]
           \/ /\ os_proc[o].state = "alive"
              /\ calls' = [calls EXCEPT ![c].pc = "fallback"]
           \/ /\ os_proc[o].state = "exited"
              /\ calls' = [calls EXCEPT ![c].pc = "wait",
                                 ![c].signals = Append(@, "killpg SIGTERM")]
           \/ /\ os_proc[o].state = "exited"
              /\ calls' = [calls EXCEPT ![c].pc = "fallback"]
        /\ UNCHANGED <<scripts, side_vars, tasks, os_proc, background_tasks, script_files, watcher,
                       out_file, err_file, shutdown_requested, written, start_log,
                       out_hist, err_hist>>

\* output.log of task o after the script's signal handler (cleanup, lines
\* 249-252 of the wrapper script) has appended its line on SIGTERM
ShutdownLine(o) ==
    [out_file EXCEPT ![tasks[o].task_id] = Append(@, RawLine(Len(@) + 1, TRUE))]

\* lines 470-482 with the force-kill sent whatever the wait returned
StopWaitKillsExited(c) ==
    LET o == calls[c].task
    IN  /\ calls[c].pc = "wait"
        /\ \/ /\ os_proc[o].state = "exited"
              /\ UNCHANGED os_proc
           \/ /\ os_proc[o].state = "alive"
              /\ \E code \in TermExitCodes \cup {KillExitCode} :
                    os_proc' = [os_proc EXCEPT ![o] = [state |-> "exited", code |-> code]]
        /\ calls' = [calls EXCEPT ![c].pc = "cleanup",
                           ![c].signals = Append(@, "killpg SIGKILL")]
        /\ tasks' = [tasks EXCEPT ![o].returncode = Some(os_proc'[o].code)]
        /\ UNCHANGED <<scripts, side_vars, background_tasks, script_files, watcher, out_file, err_file,
                       shutdown_requested, written, start_log, out_hist, err_hist>>

\* lines 470-482: wait(timeout=5); on TimeoutExpired killpg SIGKILL and wait()
StopWait(c) ==
    LET o == calls[c].task
    IN  /\ calls[c].pc = "wait"
        /\ \/ \* the process had exited on its own
              /\ os_proc[o].state = "exited"
              /\ UNCHANGED <<os_proc, out_file>>
              /\ calls' = [calls EXCEPT ![c].pc = "cleanup"]
           \/ \* the process exits within the grace period: its handler
              \* writes its line and calls exit
              /\ os_proc[o].state = "alive"
              /\ \E code \in TermExitCodes :
                    os_proc' = [os_proc EXCEPT ![o] = [state |-> "exited", code |-> code]]
              /\ out_file' = ShutdownLine(o)
              /\ calls' = [calls EXCEPT ![c].pc = "cleanup"]
           \/ \* the grace period expires
              /\ os_proc[o].state = "alive"
              /\ os_proc' = [os_proc EXCEPT ![o] = [state |-> "exited", code |-> KillExitCode]]
              /\ UNCHANGED out_file
              /\ calls' = [calls EXCEPT ![c].pc = "cleanup",
                                 ![c].signals = Append(@, "killpg SIGKILL")]
        /\ tasks' = [tasks EXCEPT ![o].returncode = Some(os_proc'[o].code)]
        /\ UNCHANGED <<scripts, side_vars, background_tasks, script_files, watcher, err_file,
                       shutdown_requested, written, start_log, out_hist, err_hist>>

\* lines 484-493: terminate(), wait(timeout=3); on TimeoutExpired kill(), wait().
\* terminate() polls first and sends nothing to a process that has exited;
\* os.kill raising PermissionError is caught at line 516 only.
StopFallback(c) ==
    LET o == calls[c].task
    IN  /\ calls[c].pc = "fallback"
        /\ \/ /\ os_proc[o].state = "exited"
              /\ UNCHANGED <<os_proc, out_file>>
              /\ tasks' = [tasks EXCEPT ![o].returncode = Some(os_proc[o].code)]
              /\ calls' = [calls EXCEPT ![c].pc = "cleanup"]
           \/ /\ os_proc[o].state = "alive"
              /\ \E code \in TermExitCodes :
                    os_proc' = [os_proc EXCEPT ![o] = [state |-> "exited", code |-> code]]
              /\ out_file' = ShutdownLine(o)
              /\ tasks' = [tasks EXCEPT ![o].returncode = Some(os_proc'[o].code)]
              /\ calls' = [calls EXCEPT ![c].pc = "cleanup",
                                 ![c].signals = Append(@, "terminate")]
           \/ /\ os_proc[o].state = "alive"
              /\ os_proc' = [os_proc EXCEPT ![o] = [state |-> "exited", code |-> KillExitCode]]
              /\ UNCHANGED out_file
              /\ tasks' = [tasks EXCEPT ![o].returncode = Some(os_proc'[o].code)]
              /\ calls' = [calls EXCEPT ![c].pc = "cleanup",
                                 ![c].signals = @ \o <<"terminate", "kill">>]
           \/ \* os.kill raises PermissionError: lines 516-521
              /\ os_proc[o].state = "alive"
              /\ UNCHANGED <<os_proc, tasks, out_file>>
              /\ calls' = [calls EXCEPT ![c] = Returns(@, "False")]
        /\ UNCHANGED <<scripts, side_vars, background_tasks, script_files, watcher, err_file,
                       shutdown_requested, written, start_log, out_hist, err_hist>>

\* lines 495-506 with the process handle dropped as well (task.process = None)
StopCleanupClearsHandle(c) ==
    LET o == calls[c].task
        f == tasks[o].script_file
    IN  /\ calls[c].pc = "cleanup"
        /\ tasks' = [tasks EXCEPT ![o].status = "stopped", ![o].process = "None"]
        /\ script_files' = script_files \ {f}
        /\ calls' = [calls EXCEPT ![c].pc = "delete", ![c].cleanup = "removed"]
        /\ UNCHANGED <<scripts, side_vars, os_proc, background_tasks, watcher, out_file, err_file,
                       shutdown_requested, written, start_log, out_hist, err_hist>>

\* lines 495-506: status, then the script file
StopCleanup(c) ==
    LET o == calls[c].task
        f == tasks[o].script_file
    IN  /\ calls[c].pc = "cleanup"
        /\ tasks' = [tasks EXCEPT ![o].status = "stopped"]
        /\ IF f # 0 /\ f \in script_files
           THEN \/ /\ script_files' = script_files \ {f}
                   /\ calls' = [calls EXCEPT ![c].pc = "delete", ![c].cleanup = "removed"]
                \/ \* os.unlink raises OSError, logged at line 503
                   /\ UNCHANGED script_files
                   /\ calls' = [calls EXCEPT ![c].pc = "delete", ![c].cleanup = "failed"]
           ELSE /\ UNCHANGED script_files
                /\ calls' = [calls EXCEPT ![c].pc = "delete", ![c].cleanup = "absent"]
        /\ UNCHANGED <<scripts, side_vars, os_proc, background_tasks, watcher, out_file, err_file,
                       shutdown_requested, written, start_log, out_hist, err_hist>>

\* lines 509-514 with the del left out: the call returns True, the entry stays
StopDeleteKeeps(c) ==
    /\ calls[c].pc = "delete"
    /\ calls' = [calls EXCEPT ![c] =
          Returns([@ EXCEPT !.deleted = calls[c].task], "True")]
    /\ UNCHANGED <<scripts, side_vars, tasks, os_proc, background_tasks, script_files, watcher,
                   out_file, err_file, shutdown_requested, written, start_log,
                   out_hist, err_hist>>

\* lines 509-514 with self.background_tasks.pop(task_id, None) for the del:
\* a missing entry is not an error and the call returns True
StopDeleteIgnoresMissing(c) ==
    LET id == calls[c].task_id
    IN  /\ calls[c].pc = "delete"
        /\ IF Has(background_tasks, id)
           THEN /\ background_tasks' = Delete(background_tasks, id)
                /\ calls' = [calls EXCEPT ![c] =
                      Returns([@ EXCEPT !.deleted = Lookup(background_tasks, id)], "True")]
           ELSE /\ UNCHANGED background_tasks
                /\ calls' = [calls EXCEPT ![c] = Returns(@, "True")]
        /\ UNCHANGED <<scripts, side_vars, tasks, os_proc, script_files, watcher, out_file, err_file,
                       shutdown_requested, written, start_log, out_hist, err_hist>>

\* lines 509-514: del self.background_tasks[task_id]; a KeyError is caught at
\* line 516 and the call returns False
StopDelete(c) ==
    LET id == calls[c].task_id
    IN  /\ calls[c].pc = "delete"
        /\ IF Has(background_tasks, id)
           THEN /\ background_tasks' = Delete(background_tasks, id)
                /\ calls' = [calls EXCEPT ![c] =
                      Returns([@ EXCEPT !.deleted = Lookup(background_tasks, id)], "True")]
           ELSE /\ UNCHANGED background_tasks
                /\ calls' = [calls EXCEPT ![c] = Returns(@, "False")]
        /\ UNCHANGED <<scripts, side_vars, tasks, os_proc, script_files, watcher, out_file, err_file,
                       shutdown_requested, written, start_log, out_hist, err_hist>>

\* ---- shutdown (lines 88-97) -----------------------------------------------
ShutdownCall(c) ==
    /\ calls[c].pc = "idle"
    /\ shutdown_requested' = TRUE
    /\ calls' = [calls EXCEPT ![c].mode = "shutdown", ![c].pc = "next",
                              ![c].queue = KeyList(background_tasks)]
    /\ UNCHANGED <<scripts, side_vars, tasks, os_proc, background_tasks, script_files, watcher,
                   out_file, err_file, written, start_log, out_hist, err_hist>>

\* one turn of the for loop: self.stop_task(task_id), or the end of the loop
ShutdownNext(c) ==
    /\ calls[c].pc = "next"
    /\ calls' = [calls EXCEPT ![c] =
          IF @.queue = <<>>
          THEN [@ EXCEPT !.pc = "done"]
          ELSE Enter([@ EXCEPT !.queue = Tail(@)], Head(@.queue))]
    /\ UNCHANGED <<scripts, side_vars, tasks, os_proc, background_tasks, script_files, watcher,
                   out_file, err_file, shutdown_requested, written, start_log,
                   out_hist, err_hist>>

\* ---- the audit log, written ------------------------------------------------
task_vars == <<tasks, os_proc, background_tasks, script_files, watcher, out_file,
               err_file, shutdown_requested, calls, written, start_log,
               out_hist, err_hist, scripts>>

Audit ==
    [main |-> main_log, gens |-> rotated, count |-> audit_count,
     size |-> max_log_file_size, files |-> max_log_files]
SetAudit(a) ==
    /\ main_log' = a.main
    /\ rotated' = a.gens
    /\ audit_count' = a.count

\* _log_info and _log_error (lines 574-582), as the lifecycle handlers call
\* them (lines 211, 222, 413, 415, 509, 519). The entries of start, stop_task
\* and the watchers are these steps: the lifecycle actions above leave the
\* audit log alone, which they never read.
LogInfo(bytes) ==
    /\ audit_count < MaxWrites
    /\ SetAudit(WriteToMainLog(Audit, "INFO", 0, bytes))
    /\ UNCHANGED <<task_vars, script_content, max_log_file_size, max_log_files,
                   exec, verdict, reply>>

LogError(bytes) ==
    /\ audit_count < MaxWrites
    /\ SetAudit(WriteToMainLog(Audit, "ERROR", 0, bytes))
    /\ UNCHANGED <<task_vars, script_content, max_log_file_size, max_log_files,
                   exec, verdict, reply>>

\* _log_info or _log_error while the log directory refuses every rename
LogRotateFails(kind, bytes) ==
    /\ audit_count < MaxWrites
    /\ SetAudit(WriteToMainLogRotateFails(Audit, kind, 0, bytes))
    /\ UNCHANGED <<task_vars, script_content, max_log_file_size, max_log_files,
                   exec, verdict, reply>>

\* ---- execute_command (lines 99-169) --------------------------------------
\* line 112: the call is entered and logs the command
ExecCall(command, bytes) ==
    /\ exec.pc \in {"idle", "done"}
    /\ exec.call < MaxExecs
    /\ exec' = [IdleExec EXCEPT !.pc = "spawn", !.call = exec.call + 1,
                                !.command = command, !.bytes = bytes]
    /\ SetAudit(WriteToMainLog(Audit, "EXEC", exec.call + 1, bytes))
    /\ UNCHANGED <<task_vars, script_content, max_log_file_size, max_log_files,
                   verdict, reply>>

\* lines 116-121: the subprocess is created, or create_subprocess_exec
\* raises and the except branch of lines 160-169 logs and returns
ExecSpawn ==
    /\ exec.pc = "spawn"
    /\ \/ /\ exec' = [exec EXCEPT !.pc = "wait"]
          /\ UNCHANGED <<main_log, rotated, audit_count>>
       \/ /\ exec' = [exec EXCEPT !.pc = "done", !.path = "exception",
                 !.result = Some(CommandResult(FALSE, "", "Failed to execute command", 0 - 1))]
          /\ SetAudit(WriteToMainLog(Audit, "ERROR", exec.call, exec.bytes))
    /\ UNCHANGED <<task_vars, script_content, max_log_file_size, max_log_files,
                   verdict, reply>>

\* the call with the success taken from the return code alone
ExecCompletesZeroOnly(return_code, output, error) ==
    LET success == (return_code = 0)
        a2 == WriteToMainLog(Audit, IF success THEN "SUCCESS" ELSE "FAILED",
                             exec.call, exec.bytes)
    IN  /\ exec.pc = "wait"
        /\ exec' = [exec EXCEPT !.pc = "done", !.path = "normal",
               !.exit = Some(return_code),
               !.result = Some(CommandResult(success, output, error, return_code))]
        /\ SetAudit(a2)
        /\ UNCHANGED <<task_vars, script_content, max_log_file_size,
                       max_log_files, verdict, reply>>

\* lines 124-158: the process ends within the timeout
ExecCompletes(return_code, output, error) ==
    LET success == DetermineCommandSuccess(exec.command, return_code, output, error)
        a1 == IF success /\ return_code # 0
              THEN WriteToMainLog(Audit, "INFO", exec.call, exec.bytes)
              ELSE Audit
        a2 == WriteToMainLog(a1, IF success THEN "SUCCESS" ELSE "FAILED",
                             exec.call, exec.bytes)
    IN  /\ exec.pc = "wait"
        /\ exec' = [exec EXCEPT !.pc = "done", !.path = "normal",
               !.exit = Some(return_code),
               !.result = Some(CommandResult(success, output, error, return_code))]
        /\ SetAudit(a2)
        /\ UNCHANGED <<task_vars, script_content, max_log_file_size,
                       max_log_files, verdict, reply>>

\* lines 127-135: the timeout expires, the process is killed and waited for
ExecTimesOut ==
    /\ exec.pc = "wait"
    /\ exec' = [exec EXCEPT !.pc = "done", !.path = "timeout",
           !.signals = Append(@, "kill"),
           !.exit = Some(KillExitCode),
           !.result = Some(CommandResult(FALSE, "", "Command timed out", 0 - 1))]
    /\ UNCHANGED <<task_vars, script_content, max_log_file_size, max_log_files,
                   main_log, rotated, audit_count, verdict, reply>>

\* ---- the classifier, applied -----------------------------------------------
Classify ==
    /\ ~verdict.called
    /\ verdict' = [verdict EXCEPT !.called = TRUE, !.success =
          DetermineCommandSuccess(verdict.command, verdict.return_code,
                                  verdict.output, verdict.error)]
    /\ UNCHANGED <<task_vars, script_content, max_log_file_size, max_log_files,
                   main_log, rotated, audit_count, exec, reply>>

\* ---- get_task_output, get_task_errors (lines 543-561) --------------------
GetTaskOutput(task_id, lines) ==
    /\ reply' = [op |-> "get_task_output", task_id |-> task_id, lines |-> lines,
                 result |-> IF ~Has(background_tasks, task_id) THEN None
                            ELSE Some(Join(RecentLines(
                                   tasks[Lookup(background_tasks, task_id)].output_log,
                                   lines)))]
    /\ UNCHANGED <<task_vars, script_content, max_log_file_size, max_log_files,
                   main_log, rotated, audit_count, exec, verdict>>

GetTaskErrors(task_id, lines) ==
    /\ reply' = [op |-> "get_task_errors", task_id |-> task_id, lines |-> lines,
                 result |-> IF ~Has(background_tasks, task_id) THEN None
                            ELSE Some(Join(RecentLines(
                                   tasks[Lookup(background_tasks, task_id)].error_log,
                                   lines)))]
    /\ UNCHANGED <<task_vars, script_content, max_log_file_size, max_log_files,
                   main_log, rotated, audit_count, exec, verdict>>

\* ---- the system -----------------------------------------------------------
Next ==
    \/ Start
    \/ \E o \in Objs : ProcWrites(o)
    \/ \E o \in Objs : ProcExits(o)
    \/ \E o \in Objs : WatcherPoll(o)
    \/ \E o \in Objs : WatcherFinish(o)
    \/ \E c \in Callers, id \in TaskIds : StopCall(c, id)
    \/ \E c \in Callers : StopLookup(c)
    \/ \E c \in Callers : StopPoll(c)
    \/ \E c \in Callers : StopKillpg(c)
    \/ \E c \in Callers : StopWait(c)
    \/ \E c \in Callers : StopFallback(c)
    \/ \E c \in Callers : StopCleanup(c)
    \/ \E c \in Callers : StopDelete(c)
    \/ \E c \in Callers : ShutdownCall(c)
    \/ \E c \in Callers : ShutdownNext(c)
    \/ \E bytes \in EntryBytes : LogInfo(bytes)
    \/ \E bytes \in EntryBytes : LogError(bytes)
    \/ \E kind \in {"INFO", "ERROR"}, bytes \in EntryBytes : LogRotateFails(kind, bytes)
    \/ \E command \in ExecCommands, bytes \in EntryBytes : ExecCall(command, bytes)
    \/ ExecSpawn
    \/ \E return_code \in ReturnCodes, output \in ExecOutputs, error \in ExecErrors :
          ExecCompletes(return_code, output, error)
    \/ ExecTimesOut
    \/ Classify
    \/ \E task_id \in TaskIds, lines \in QueryLines : GetTaskOutput(task_id, lines)
    \/ \E task_id \in TaskIds, lines \in QueryLines : GetTaskErrors(task_id, lines)

Spec == Init /\ [][Next]_vars

\* start, stop_task, the watchers and the processes' exits: the operations
\* that read or write the registry, the task status and the process handles.
\* (ProcWrites touches the log files only; shutdown is a loop of stop_task.)
NextStop ==
    \/ Start
    \/ \E o \in Objs : ProcExits(o)
    \/ \E o \in Objs : WatcherPoll(o)
    \/ \E o \in Objs : WatcherFinish(o)
    \/ \E c \in Callers, id \in TaskIds : StopCall(c, id)
    \/ \E c \in Callers : StopLookup(c)
    \/ \E c \in Callers : StopPoll(c)
    \/ \E c \in Callers : StopKillpg(c)
    \/ \E c \in Callers : StopWait(c)
    \/ \E c \in Callers : StopFallback(c)
    \/ \E c \in Callers : StopCleanup(c)
    \/ \E c \in Callers : StopDelete(c)

SpecStop == Init /\ [][NextStop]_vars

\* A task that has been running for a while: its process has written n0
\* lines to output.log and its watcher has copied them all (one poll does).
LongOutput(n0) == [k \in 1..n0 |-> RawLine(k, TRUE)]

InitLogs ==
    \E n0 \in {max_log_lines - 1, max_log_lines} :
        /\ tasks = <<[NewTask(1) EXCEPT !.script_file = 1, !.process = "Popen",
                          !.status = "running",
                          !.output_log = StripAll(LongOutput(n0))]>>
        /\ os_proc = <<[state |-> "alive", code |-> 0]>>
        /\ background_tasks = <<[id |-> 1, task |-> 1]>>
        /\ script_files = {1}
        /\ watcher = <<"loop">>
        /\ out_file = [i \in TaskIds |-> IF i = 1 THEN LongOutput(n0) ELSE <<>>]
        /\ err_file = [i \in TaskIds |-> <<>>]
        /\ shutdown_requested = FALSE
        /\ calls = [c \in Callers |-> IdleCall]
        /\ written = 0
        /\ start_log = <<[task |-> 1, id |-> 1, result |-> "returned"]>>
        /\ out_hist = <<StripAll(LongOutput(n0))>>
        /\ err_hist = <<<<>>>>
        /\ script_content = DefaultBody
        /\ scripts = <<Some(CreateScriptFile(1, script_content))>>
        /\ InitSide

\* the task's process and its watcher
NextLogs ==
    \/ \E o \in Objs : ProcWrites(o)
    \/ \E o \in Objs : ProcExits(o)
    \/ \E o \in Objs : WatcherPoll(o)
    \/ \E o \in Objs : WatcherFinish(o)

SpecLogs == InitLogs /\ [][NextLogs]_vars

\* the task's process, its watcher and stop_task
NextTail ==
    \/ \E o \in Objs : ProcWrites(o)
    \/ \E o \in Objs : ProcExits(o)
    \/ \E o \in Objs : WatcherPoll(o)
    \/ \E o \in Objs : WatcherFinish(o)
    \/ \E c \in Callers, id \in TaskIds : StopCall(c, id)
    \/ \E c \in Callers : StopLookup(c)
    \/ \E c \in Callers : StopPoll(c)
    \/ \E c \in Callers : StopKillpg(c)
    \/ \E c \in Callers : StopWait(c)
    \/ \E c \in Callers : StopFallback(c)
    \/ \E c \in Callers : StopCleanup(c)
    \/ \E c \in Callers : StopDelete(c)

SpecTail == InitLogs /\ [][NextTail]_vars

\* ---- the audit log and one-shot execution ---------------------------------
\* A task that has been running for a while: its process has written n0
\* lines to output.log and n1 lines to error.log, all copied by its watcher.
InitRunning(n0, n1) ==
    /\ tasks = <<[NewTask(1) EXCEPT !.script_file = 1, !.process = "Popen",
                      !.status = "running",
                      !.output_log = StripAll(LongOutput(n0)),
                      !.error_log = StripAll(LongOutput(n1))]>>
    /\ os_proc = <<[state |-> "alive", code |-> 0]>>
    /\ background_tasks = <<[id |-> 1, task |-> 1]>>
    /\ script_files = {1}
    /\ watcher = <<"loop">>
    /\ out_file = [i \in TaskIds |-> IF i = 1 THEN LongOutput(n0) ELSE <<>>]
    /\ err_file = [i \in TaskIds |-> IF i = 1 THEN LongOutput(n1) ELSE <<>>]
    /\ shutdown_requested = FALSE
    /\ calls = [c \in Callers |-> IdleCall]
    /\ written = 0
    /\ start_log = <<[task |-> 1, id |-> 1, result |-> "returned"]>>
    /\ out_hist = <<StripAll(LongOutput(n0))>>
    /\ err_hist = <<StripAll(LongOutput(n1))>>
    /\ script_content = DefaultBody
    /\ scripts = <<Some(CreateScriptFile(1, script_content))>>

\* the configured thresholds (lines 70-71) and their defaults (lines 75-76)
LogSizeConfigs == {128, 10 * 1024 * 1024}
LogFilesConfigs == {2, 5}

\* The log directory as earlier runs under the same configuration left it:
\* k rotated generations, each above the threshold when it was rotated, and
\* no current log or one that the next entries bring above the threshold.
InitAudit ==
    /\ InitRunning(0, 0)
    /\ \E size \in LogSizeConfigs, files \in LogFilesConfigs, full \in BOOLEAN :
          /\ max_log_file_size = size
          /\ max_log_files = files
          /\ main_log = IF full THEN Some(<<OldEntry(0, size - 64)>>) ELSE None
          /\ \E k \in 0..files :
                rotated = [g \in 1..(files + 1) |->
                              IF g <= k THEN Some(<<OldEntry(g, size + 64)>>)
                              ELSE None]
    /\ audit_count = 0
    /\ exec = IdleExec
    /\ verdict = NoVerdict
    /\ reply = NoReply

NextAudit ==
    \/ \E bytes \in EntryBytes : LogInfo(bytes)
    \/ \E bytes \in EntryBytes : LogError(bytes)
    \/ \E command \in ExecCommands, bytes \in EntryBytes : ExecCall(command, bytes)
    \/ ExecSpawn
    \/ \E return_code \in ReturnCodes, output \in ExecOutputs, error \in ExecErrors :
          ExecCompletes(return_code, output, error)
    \/ ExecTimesOut

SpecAudit == InitAudit /\ [][NextAudit]_vars

\* the appends alone, entry after entry
NextRotate ==
    \/ \E bytes \in EntryBytes : LogInfo(bytes)
    \/ \E bytes \in EntryBytes : LogError(bytes)

SpecRotate == InitAudit /\ [][NextRotate]_vars

\* the appends, in a log directory that lets the renames through or not
NextRotateFails ==
    \/ \E bytes \in EntryBytes : LogInfo(bytes)
    \/ \E bytes \in EntryBytes : LogError(bytes)
    \/ \E kind \in {"INFO", "ERROR"}, bytes \in EntryBytes : LogRotateFails(kind, bytes)

SpecRotateFails == InitAudit /\ [][NextRotateFails]_vars

\* ---- one-shot execution alone ----------------------------------------------
\* a step of the execute_command call in progress
ExecStep ==
    \/ ExecSpawn
    \/ \E return_code \in ReturnCodes, output \in ExecOutputs, error \in ExecErrors :
          ExecCompletes(return_code, output, error)
    \/ ExecTimesOut

NextExec ==
    \/ \E command \in ExecCommands, bytes \in EntryBytes : ExecCall(command, bytes)
    \/ ExecStep

\* The event loop runs the call: create_subprocess_exec returns or raises
\* (line 116), and the timer of wait_for (line 124) fires while the call is
\* still waiting for the process.
SpecExec ==
    InitAudit /\ [][NextExec]_vars /\ WF_vars(ExecSpawn) /\ WF_vars(ExecTimesOut)

\* ---- the classifier on every command, return code, stdout and stderr ------
InitClassify ==
    /\ InitTasks
    /\ script_content = DefaultBody
    /\ InitLogDirectory
    /\ exec = IdleExec
    /\ reply = NoReply
    /\ \E command \in Commands, return_code \in ReturnCodes,
          output \in Outputs, error \in Errors :
          verdict = [NoVerdict EXCEPT !.command = command,
                                      !.return_code = return_code,
                                      !.output = output, !.error = error]

SpecClassify == InitClassify /\ [][Classify]_vars

\* ---- start with every script body -----------------------------------------
InitScript ==
    /\ InitTasks
    /\ script_content \in Bodies
    /\ InitSide

SpecScript == InitScript /\ [][Start]_vars

\* ---- the queries beside a task's process, its watcher and stop_task --------
InitQuery ==
    /\ \E n0 \in {0, 3}, n1 \in {0, 1} : InitRunning(n0, n1)
    /\ InitSide

NextQuery ==
    \/ \E task_id \in TaskIds, lines \in QueryLines : GetTaskOutput(task_id, lines)
    \/ \E task_id \in TaskIds, lines \in QueryLines : GetTaskErrors(task_id, lines)
    \/ \E o \in Objs : ProcExits(o)
    \/ \E o \in Objs : WatcherPoll(o)
    \/ \E o \in Objs : WatcherFinish(o)
    \/ \E c \in Callers, id \in TaskIds : StopCall(c, id)
    \/ \E c \in Callers : StopLookup(c)
    \/ \E c \in Callers : StopPoll(c)
    \/ \E c \in Callers : StopKillpg(c)
    \/ \E c \in Callers : StopWait(c)
    \/ \E c \in Callers : StopFallback(c)
    \/ \E c \in Callers : StopCleanup(c)
    \/ \E c \in Callers : StopDelete(c)

SpecQuery == InitQuery /\ [][NextQuery]_vars

\* ---- a task's process, its watcher and stop_task, the watcher running ------
\* The monitor thread is scheduled: it evaluates its loop condition again
\* after each sleep (line 404) and runs lines 406-412 once the loop has ended.
SpecDrain ==
    /\ InitQuery
    /\ [][NextTail]_vars
    /\ \A o \in 1..MaxTasks : WF_vars(o \in Objs /\ WatcherPoll(o))
    /\ \A o \in 1..MaxTasks : WF_vars(o \in Objs /\ WatcherFinish(o))

\* ---- shutdown of the started tasks ------------------------------------------
\* two tasks have been started and are running
InitStarted ==
    /\ tasks = [o \in 1..2 |-> [NewTask(o) EXCEPT !.script_file = o,
                                    !.process = "Popen", !.status = "running"]]
    /\ os_proc = [o \in 1..2 |-> [state |-> "alive", code |-> 0]]
    /\ background_tasks = [o \in 1..2 |-> [id |-> o, task |-> o]]
    /\ script_files = {1, 2}
    /\ watcher = [o \in 1..2 |-> "loop"]
    /\ out_file = [i \in TaskIds |-> <<>>]
    /\ err_file = [i \in TaskIds |-> <<>>]
    /\ shutdown_requested = FALSE
    /\ calls = [c \in Callers |-> IdleCall]
    /\ written = 0
    /\ start_log = [o \in 1..2 |-> [task |-> o, id |-> o, result |-> "returned"]]
    /\ out_hist = [o \in 1..2 |-> <<>>]
    /\ err_hist = [o \in 1..2 |-> <<>>]
    /\ script_content = DefaultBody
    /\ scripts = [o \in 1..2 |-> Some(CreateScriptFile(o, script_content))]
    /\ InitSide

\* the processes' exits, the watchers and shutdown with its stop_task calls
NextShutdown ==
    \/ \E o \in Objs : ProcExits(o)
    \/ \E o \in Objs : WatcherPoll(o)
    \/ \E o \in Objs : WatcherFinish(o)
    \/ \E c \in Callers : ShutdownCall(c)
    \/ \E c \in Callers : ShutdownNext(c)
    \/ \E c \in Callers : StopLookup(c)
    \/ \E c \in Callers : StopPoll(c)
    \/ \E c \in Callers : StopKillpg(c)
    \/ \E c \in Callers : StopWait(c)
    \/ \E c \in Callers : StopFallback(c)
    \/ \E c \in Callers : StopCleanup(c)
    \/ \E c \in Callers : StopDelete(c)

SpecShutdown == InitStarted /\ [][NextShutdown]_vars


\* ---- properties ----------------------------------------------------------
\* the tasks a start has put in the registry under `id` after task `t`
Reregistered(id, t) ==
    \E o \in Objs : o > t /\ tasks[o].task_id = id /\ tasks[o].process # "None"

\* caller c enters stop_task(id) in this step
Entered(c, id) ==
    \/ /\ calls[c].pc = "idle"
       /\ calls'[c].pc # "idle"
       /\ calls'[c].mode = "stop"
       /\ calls'[c].task_id = id
    \/ /\ calls[c].pc = "next"
       /\ calls[c].queue # <<>>
       /\ Head(calls[c].queue) = id
       /\ calls'[c] # calls[c]

\* caller c's stop_task, past line 454, returns in this step
ReturnsNow(c) ==
    /\ calls[c].pc \in {"poll", "killpg", "wait", "fallback", "cleanup", "delete"}
    /\ calls'[c].pc \in {"done", "next"}

StopAlwaysCleansUp ==
    [][\A c \in Callers :
          ReturnsNow(c) =>
              /\ calls[c].cleanup # "none"
              /\ calls[c].task \notin Values(background_tasks')]_vars

\* C3: stop_task with an id that is not in the registry returns False, sends
\* no signal and changes neither the registry nor any task, process or file.
StopUnknownIsNoOp ==
    [][\A c \in Callers, id \in TaskIds :
          (Entered(c, id) /\ ~Has(background_tasks, id)) =>
              /\ calls'[c].ret = "False"
              /\ calls'[c].pc \in {"done", "next"}
              /\ calls'[c].signals = <<>>
              /\ calls'[c].task = 0
              /\ UNCHANGED <<background_tasks, tasks, os_proc, script_files>>]_vars

StopUnknownWitness ==
    \E c \in Callers :
        /\ calls[c].pc = "done" /\ calls[c].ret = "False" /\ calls[c].task = 0
        /\ background_tasks # <<>>
        /\ ~Has(background_tasks, calls[c].task_id)

\* C4: a start that raises leaves the registry as it was, with no entry for
\* its task, and the task marked error.
FailedStartLeavesRegistry ==
    [][(Len(start_log') = Len(start_log) + 1
          /\ start_log'[Len(start_log')].result = "raised") =>
              LET o == start_log'[Len(start_log')].task
              IN  /\ background_tasks' = background_tasks
                  /\ o \notin Values(background_tasks')
                  /\ tasks'[o].status = "error"]_vars

\* C5: when every start so far has succeeded and no stop_task was called,
\* the returned ids are pairwise distinct, the registry has one entry per
\* start and no two tasks share a script file.
AllStartsReturned ==
    /\ \A i \in 1..Len(start_log) : start_log[i].result = "returned"
    /\ \A c \in Callers : calls[c].pc = "idle"

StartsAreDistinct ==
    AllStartsReturned =>
        /\ \A i, j \in 1..Len(start_log) :
              i # j => /\ start_log[i].id # start_log[j].id
                       /\ tasks[i].script_file # tasks[j].script_file
        /\ Len(background_tasks) = Len(start_log)
        /\ Values(background_tasks) = Objs

\* C6: of two stop_task calls that looked up the same task, at most one
\* deletes its registry entry and at most one returns True (no start having
\* registered the id again meanwhile).
OneStopDeletes ==
    \A c1 \in Callers, c2 \in Callers :
        ( /\ c1 # c2
          /\ calls[c1].task # 0
          /\ calls[c1].task = calls[c2].task
          /\ ~Reregistered(calls[c1].task_id, calls[c1].task) )
        => /\ ~(calls[c1].ret = "True" /\ calls[c2].ret = "True")
           /\ ~(calls[c1].deleted # 0 /\ calls[c2].deleted # 0)

OneStopDeletesWitness ==
    \E c1 \in Callers, c2 \in Callers :
        /\ c1 # c2
        /\ calls[c1].task # 0 /\ calls[c1].task = calls[c2].task
        /\ calls[c1].pc = "done" /\ calls[c2].pc = "done"
        /\ c1 \notin calls[c2].after /\ c2 \notin calls[c1].after
        /\ calls[c1].ret = "True" /\ calls[c2].ret = "False"
        /\ ~Reregistered(calls[c1].task_id, calls[c1].task)

\* the tasks whose registry entry a stop_task call has deleted
Stopped == {calls[c].deleted : c \in Callers} \ {0}

\* C7: once stop_task has set a task's status to stopped and deleted its
\* entry, the status stays stopped.
StopTakesPrecedence ==
    [][\A o \in Objs :
          (o \in Stopped /\ tasks[o].status = "stopped")
              => tasks'[o].status = "stopped"]_vars
\* C8: a watcher step changes nothing but its own task's status, logs and
\* observed return code, and an id leaves the registry only in the del of a
\* stop_task call for that id; so a task whose process exited on its own is
\* still registered, with status stopped or error.
WatcherStep(o) ==
    \/ watcher'[o] # watcher[o]
    \/ tasks'[o].output_log # tasks[o].output_log
    \/ tasks'[o].error_log # tasks[o].error_log

OnlyStopRemoves ==
    [][/\ \A o \in Objs :
             WatcherStep(o) =>
                 /\ UNCHANGED <<background_tasks, script_files, os_proc, calls>>
                 /\ tasks'[o].task_id = tasks[o].task_id
                 /\ tasks'[o].process = tasks[o].process
                 /\ tasks'[o].script_file = tasks[o].script_file
                 /\ \A p \in Objs \ {o} : tasks'[p] = tasks[p]
       /\ \A id \in Keys(background_tasks) \ Keys(background_tasks') :
             \E c \in Callers :
                 /\ calls[c].pc = "delete"
                 /\ calls[c].task_id = id
                 /\ calls'[c].ret = "True"]_vars

SelfExitedStaysRegistered ==
    \E o \in Objs :
        /\ watcher[o] = "done"
        /\ tasks[o].status \in {"stopped", "error"}
        /\ o \in Values(background_tasks)
        /\ tasks[o].output_log # <<>>
        /\ \A c \in Callers : calls[c].pc = "idle"

LastN(seq, n) ==
    IF Len(seq) <= n THEN seq ELSE SubSeq(seq, Len(seq) - n + 1, Len(seq))

LogKeepsNewest ==
    \A o \in Objs :
        /\ Len(tasks[o].output_log) <= max_log_lines
        /\ Len(tasks[o].error_log) <= max_log_lines
        /\ tasks[o].output_log = LastN(out_hist[o], max_log_lines)
        /\ tasks[o].error_log = LastN(err_hist[o], max_log_lines)

LogEvictedOldest ==
    \E o \in Objs :
        /\ Len(out_hist[o]) > max_log_lines
        /\ Len(tasks[o].output_log) = max_log_lines
        /\ tasks[o].output_log[1] # out_hist[o][1]

\* ---- the audit log's rotation ---------------------------------------------
Generations(gens) == {g \in DOMAIN gens : gens[g] # None}
\* the entries of file g of gens
EntriesOf(gens, g) == {gens[g][1][k] : k \in 1..Len(gens[g][1])}

\* C11: at all times at most max_log_files rotated generations of the audit
\* log are on disk; a rotation moves every retained generation i to i + 1,
\* discards no content but that of the oldest generation (number
\* max_log_files), and leaves in generation 1 the content of the current log,
\* which is newer than the content of every other generation.
RotationShiftsGenerations ==
    /\ [](Cardinality(Generations(rotated)) <= max_log_files)
    /\ [][rotated' # rotated =>
            /\ \A i \in 1..(max_log_files - 1) :
                  rotated[i] # None => rotated'[i + 1] = rotated[i]
            /\ \A g \in Generations(rotated) :
                  (\A h \in DOMAIN rotated : rotated'[h] # rotated[g])
                      => g = max_log_files
            /\ rotated'[1] # None
            /\ main_log # None =>
                  SubSeq(rotated'[1][1], 1, Len(main_log[1])) = main_log[1]
            /\ \A g \in Generations(rotated') \ {1} :
                  \A e \in EntriesOf(rotated', g), f \in EntriesOf(rotated', 1) :
                      e.n < f.n
         ]_vars

\* every generation is on disk, the oldest content has been discarded, the
\* content that was in generation max_log_files - 1 is the oldest now, and
\* generation 1 holds an entry of this run
RotationDiscardedOldest ==
    /\ Cardinality(Generations(rotated)) = max_log_files
    /\ rotated[max_log_files] = Some(<<OldEntry(max_log_files - 1, max_log_file_size + 64)>>)
    /\ \E f \in EntriesOf(rotated, 1) : f.n >= 1

\* ---- the script written by start -------------------------------------------
\* the positions of text where the token occurs, where a task id stands
Tokens(text) == {i \in 1..Len(text) : TokenAt(text, i)}
IdsIn(text) == {i \in 1..Len(text) : \E id \in TaskIds : text[i] = IdText(id)}

\* C12: the script file written by a start that returned holds no occurrence
\* of the placeholder token; every occurrence in the body has become the task
\* id that start returned, which is the only id in the script (TASK_ID, log
\* directory, body) and the id under which the task is registered.
ScriptHoldsReturnedId ==
    \A k \in 1..Len(start_log) :
        start_log[k].result = "returned" =>
            LET o == start_log[k].task
                id == start_log[k].id
            IN  /\ scripts[o] # None
                /\ Tokens(scripts[o][1]) = {}
                /\ \A i \in IdsIn(scripts[o][1]) : scripts[o][1][i] = IdText(id)
                /\ Cardinality(IdsIn(scripts[o][1]))
                     = Cardinality(IdsIn(WrapperHead(id)))
                       + Cardinality(Tokens(script_content))
                /\ tasks[o].task_id = id
                /\ \A r \in 1..Len(background_tasks) :
                      background_tasks[r].task = o => background_tasks[r].id = id

\* a start has returned for a body that holds the token twice
ScriptWithTwoTokens ==
    /\ Cardinality(Tokens(script_content)) = 2
    /\ \E k \in 1..Len(start_log) : start_log[k].result = "returned"

\* ---- shutdown ----------------------------------------------------------------
\* caller c's shutdown has returned
ShutdownReturned(c) ==
    /\ calls[c].mode = "shutdown"
    /\ calls[c].pc = "done"
    /\ calls[c].ret # "KeyError"

\* C13: when shutdown has returned, no process of a task that was registered
\* when it was called is running, and the registry is empty (no task is
\* started during or after the shutdown).
ShutdownStopsEveryTask ==
    \A c \in Callers :
        ShutdownReturned(c) =>
            /\ background_tasks = <<>>
            /\ \A o \in Objs : os_proc[o].state # "alive"

\* C20: a watcher changes its task's status from running only when it has
\* observed the exit of the process (the process has exited and the handle
\* holds its return code), and then to stopped for return code 0 and to error
\* otherwise; so it sets no terminal status while the process is alive,
\* shutdown requested or not.
WatcherStatusOnlyAfterExit ==
    [][\A o \in Objs :
          ( /\ watcher'[o] # watcher[o]
            /\ tasks[o].status = "running"
            /\ tasks'[o].status # "running" )
          => /\ os_proc[o].state = "exited"
             /\ tasks[o].returncode # None
             /\ tasks'[o].status =
                   (IF tasks[o].returncode = Some(0) THEN "stopped" ELSE "error")
      ]_vars

\* ---- the classifier ----------------------------------------------------------
\* C14: for a command whose text contains "diff", whatever stdout is: return
\* codes 0 and 1 are a success whatever stderr is, return code 2 is a failure
\* when stderr contains "no such file" and a success when stderr is empty.
DiffVerdicts ==
    (verdict.called /\ InCommand("diff", verdict.command)) =>
        /\ verdict.return_code \in {0, 1} => verdict.success
        /\ ( /\ verdict.return_code = 2
             /\ TextContains(LowerText(verdict.error), "no such file") )
              => ~verdict.success
        /\ (verdict.return_code = 2 /\ verdict.error = "") => verdict.success

\* a diff that ended with return code 2 and "no such file" on stderr
DiffNoSuchFile ==
    /\ verdict.called
    /\ InCommand("diff", verdict.command)
    /\ verdict.return_code = 2
    /\ TextContains(LowerText(verdict.error), "no such file")
    /\ ~verdict.success

\* C15: for a command whose text contains "grep", whatever else it contains
\* and whatever stdout is: return codes 0 and 1 are a success, return code 2
\* is a success with empty stderr and a failure with non-empty stderr.
GrepVerdictsAnyCommand ==
    (verdict.called /\ InCommand("grep", verdict.command)) =>
        /\ verdict.return_code \in {0, 1} => verdict.success
        /\ (verdict.return_code = 2 /\ verdict.error = "") => verdict.success
        /\ (verdict.return_code = 2 /\ verdict.error # "") => ~verdict.success

\* C15, amended: for a command whose text contains "grep" and not "diff" (in
\* any letter case): return codes 0 and 1 are a success, and return code 2 is
\* a success exactly when stderr is empty or whitespace only.
GrepVerdicts ==
    LET command_lower == LowerCommand(verdict.command)
    IN  ( /\ verdict.called
          /\ InCommand("grep", command_lower)
          /\ ~InCommand("diff", command_lower) ) =>
            /\ verdict.return_code \in {0, 1} => verdict.success
            /\ verdict.return_code = 2 =>
                  (verdict.success <=> StripText(verdict.error) = "")

\* a grep, not a diff, that ended with return code 2 and a message on stderr
GrepFailed ==
    /\ verdict.called
    /\ InCommand("grep", verdict.command)
    /\ ~InCommand("diff", LowerCommand(verdict.command))
    /\ verdict.return_code = 2
    /\ verdict.error = "err"
    /\ ~verdict.success

\* C16: for a command that begins with "[" or "test" the classifier returns
\* true, whatever the return code, stdout and stderr are.
TestAlwaysSucceeds ==
    ( /\ verdict.called
      /\ StartsWith(verdict.command, "[") \/ StartsWith(verdict.command, "test") )
        => verdict.success

\* C16, amended: for a command that begins with "[" or "test" (in any letter
\* case, leading whitespace aside) and whose text contains neither "diff" nor
\* "grep", the classifier returns true for every return code, stdout, stderr.
TestSucceedsUnlessDiffOrGrep ==
    LET command_lower == StripCommand(LowerCommand(verdict.command))
    IN  ( /\ verdict.called
          /\ StartsWith(command_lower, "[") \/ StartsWith(command_lower, "test")
          /\ ~InCommand("diff", command_lower)
          /\ ~InCommand("grep", command_lower) )
            => verdict.success

\* a test command, no diff and no grep in it, that ended with a return code
\* other than 0 and a message on stderr
TestFalseIsSuccess ==
    /\ verdict.called
    /\ StartsWith(verdict.command, "test")
    /\ ~InCommand("diff", LowerCommand(verdict.command))
    /\ ~InCommand("grep", LowerCommand(verdict.command))
    /\ verdict.return_code = 2
    /\ verdict.error = "err"
    /\ verdict.success

\* ---- the queries -------------------------------------------------------------
\* the in-memory log that the query of reply r reads
QueriedLog(r) ==
    LET task == tasks[Lookup(background_tasks, r.task_id)]
    IN  IF r.op = "get_task_output" THEN task.output_log ELSE task.error_log

\* C17: get_task_output(id, n) and get_task_errors(id, n), for every n >= 0,
\* return None exactly when id is not in the registry, and otherwise the last
\* min(n, length) lines of the task's in-memory log, in order and joined by
\* newlines; they change no state.
QueryReturnsLastLines ==
    [][reply' # reply =>
          /\ reply'.result = None <=> ~Has(background_tasks, reply'.task_id)
          /\ Has(background_tasks, reply'.task_id) =>
                reply'.result = Some(Join(LastLines(QueriedLog(reply'), reply'.lines)))
          /\ UNCHANGED <<task_vars, script_content, max_log_file_size,
                         max_log_files, main_log, rotated, audit_count, exec,
                         verdict>>
      ]_vars

\* ---- one-shot execution -------------------------------------------------------
\* C18: execute_command always returns a result dict: a call that has been
\* entered returns; when it has returned after a timeout or an exception
\* the result has success False and return code -1, and otherwise the return
\* code is the exit code of the process and success is the classifier's
\* verdict on the command, the exit code, stdout and stderr; no step of the
\* call changes the registry or a task.
ExecAlwaysReturnsResult ==
    /\ exec.pc \in {"spawn", "wait"} ~> exec.pc = "done"
    /\ [](exec.pc = "done" =>
            /\ exec.result # None
            /\ exec.path \in {"timeout", "exception"} =>
                  /\ ~exec.result[1].success
                  /\ exec.result[1].return_code = 0 - 1
            /\ exec.path = "normal" =>
                  /\ exec.result[1].return_code = exec.exit[1]
                  /\ exec.result[1].success =
                        DetermineCommandSuccess(exec.command, exec.exit[1],
                                                exec.result[1].output,
                                                exec.result[1].error))
    /\ [][exec' # exec => UNCHANGED <<background_tasks, tasks>>]_vars

\* a grep that found nothing has returned: exit code 1, a success
ExecGrepNoMatch ==
    /\ exec.pc = "done"
    /\ exec.path = "normal"
    /\ exec.command = <<"grep">>
    /\ exec.result[1].return_code = 1
    /\ exec.result[1].success
    /\ background_tasks # <<>>

\* the entries of the audit log on disk, in the current log and the
\* rotated generations
OnDisk(log, gens) ==
    (IF log = None THEN {} ELSE {log[1][k] : k \in 1..Len(log[1])})
    \cup UNION {EntriesOf(gens, g) : g \in Generations(gens)}

\* C19: every execute_command call writes the EXEC entry of its command to
\* the audit log when it is entered and, on each of its paths (normal end,
\* timeout, exception), an entry with the outcome of the call before it
\* returns.
ExecOutcomeLogged ==
    [][ /\ (exec'.pc = "spawn" /\ exec.pc # "spawn") =>
              \E e \in OnDisk(main_log', rotated') :
                  /\ e.kind = "EXEC"
                  /\ e.call = exec'.call
                  /\ e.n > audit_count
        /\ (exec'.pc = "done" /\ exec.pc # "done") =>
              \E e \in OnDisk(main_log', rotated') :
                  /\ e.kind \in {"SUCCESS", "FAILED", "ERROR"}
                  /\ e.call = exec'.call
                  /\ e.n > audit_count
      ]_vars

\* ---- the signals of stop_task ------------------------------------------------
\* the last signal caller c's stop_task sends in this step, or "none"
SignalSent(c) ==
    IF Len(calls'[c].signals) > Len(calls[c].signals)
    THEN calls'[c].signals[Len(calls'[c].signals)]
    ELSE "none"

\* the signals of one stop_task call, in the orders the claim allows
SignalOrders ==
    {<<>>, <<"killpg SIGTERM">>, <<"killpg SIGTERM", "killpg SIGKILL">>,
     <<"terminate">>, <<"terminate", "kill">>}

FindsExited(c) ==
    /\ calls[c].pc = "poll"
    /\ calls'[c] # calls[c]
    /\ os_proc[calls[c].task].state = "exited"

\* caller c's stop_task, having sent no signal, does lines 495-506 in this step
CleansUpUnsignalled(c) ==
    /\ calls[c].pc = "cleanup"
    /\ calls'[c].pc = "delete"
    /\ calls[c].signals = <<>>

\* caller c's stop_task, having sent no signal, does lines 509-521 in this step
DeletesUnsignalled(c) ==
    /\ calls[c].pc = "delete"
    /\ calls'[c].pc \in {"done", "next"}
    /\ calls[c].signals = <<>>

\* C22 as claimed: a stop_task call that finds the process exited sends no
\* signal, sets the status to stopped, removes the script file, removes the
\* registry entry and returns True.
StopExitedCleansUp ==
    [][\A c \in Callers :
          LET o == calls[c].task
          IN  /\ FindsExited(c) =>
                    (calls'[c].pc = "cleanup" /\ calls'[c].signals = <<>>)
              /\ CleansUpUnsignalled(c) =>
                    /\ tasks'[o].status = "stopped"
                    /\ tasks[o].script_file \notin script_files'
              /\ DeletesUnsignalled(c) =>
                    /\ ~Has(background_tasks', calls[c].task_id)
                    /\ calls'[c].ret = "True"]_vars

\* C22 as the code has it: a stop_task call that finds the process exited
\* sends no signal and sets the status to stopped; the script file is gone
\* unless os.unlink raised; the registry entry is gone when the call returns,
\* and the call returns True when it is the one that deleted the entry of
\* its id, False when another stop_task call had deleted it since line 454.
StopExitedCleansUpUnlessRaced ==
    [][\A c \in Callers :
          LET o == calls[c].task
          IN  /\ FindsExited(c) =>
                    (calls'[c].pc = "cleanup" /\ calls'[c].signals = <<>>)
              /\ CleansUpUnsignalled(c) =>
                    /\ tasks'[o].status = "stopped"
                    /\ calls'[c].cleanup \in {"removed", "absent", "failed"}
                    /\ calls'[c].cleanup # "failed" =>
                          tasks[o].script_file \notin script_files'
                    /\ calls'[c].cleanup = "failed" => UNCHANGED script_files
              /\ DeletesUnsignalled(c) =>
                    /\ ~Has(background_tasks', calls[c].task_id)
                    /\ calls'[c].ret =
                          IF Has(background_tasks, calls[c].task_id)
                          THEN "True" ELSE "False"]_vars

\* the watcher has recorded error for a process that exited with status 1;
\* a stop_task call has skipped the signals, set the status to stopped,
\* removed the script file and deleted the registry entry
StopOverwroteError ==
    \E c \in Callers :
        LET o == calls[c].deleted
        IN  /\ calls[c].pc = "done" /\ calls[c].ret = "True"
            /\ o # 0
            /\ watcher[o] = "done"
            /\ os_proc[o].code = 1
            /\ tasks[o].status = "stopped"
            /\ tasks[o].script_file \notin script_files
            /\ o \notin Values(background_tasks)
            /\ \A d \in Callers \ {c} : calls[d].pc = "idle"

\* ---- the lines the watcher copies -------------------------------------------
\* no line of the file was appended twice to the in-memory log
CopiedOnce(hist) ==
    \A i, j \in 1..Len(hist) : i # j => hist[i].text # hist[j].text

\* C23: each line of a task's output.log and error.log is copied into the
\* in-memory log at most once, also after the log has reached its cap of
\* max_log_lines lines, and a poll over unchanged files changes no log.
LinesCopiedOnce ==
    /\ [](\A o \in Objs : CopiedOnce(out_hist[o]) /\ CopiedOnce(err_hist[o]))
    /\ [][\A o \in Objs :
            (WatcherStep(o) /\ Len(out_hist[o]) = Len(out_file[tasks[o].task_id])
                            /\ Len(err_hist[o]) = Len(err_file[tasks[o].task_id]))
                => UNCHANGED <<tasks[o].output_log, tasks[o].error_log>>]_vars

\* ---- the audit log: where an entry lands ------------------------------------
\* C24: the rotation is considered before the append, on the size the file
\* has without the new entry: an append to a file within the threshold
\* rotates nothing, an append to a file above it shifts the generations and
\* starts a fresh file, and after every append the entry just written is
\* the last one of the current log file, in no rotated generation.
EntryLandsInCurrentLog ==
    [][audit_count' > audit_count =>
          /\ main_log' # None
          /\ main_log'[1][Len(main_log'[1])].n = audit_count'
          /\ \A g \in Generations(rotated') :
                \A e \in EntriesOf(rotated', g) : e.n # audit_count'
          /\ (main_log # None /\ Size(main_log[1]) <= max_log_file_size)
                => rotated' = rotated]_vars

\* ---- the audit log: a rotation that fails -----------------------------------
\* the diagnostic entries among those the append of this step wrote
Diagnostics ==
    {e \in OnDisk(main_log', rotated') : e.n > audit_count + 1 /\ e.kind = "ERROR"}

\* the current log file before this step, as a sequence of entries
CurrentEntries == IF main_log = None THEN <<>> ELSE main_log[1]

\* the append of this step brought the file above the threshold and the
\* file was not renamed: its rotation failed
RotationFailed ==
    /\ audit_count' > audit_count
    /\ main_log' # None
    /\ Len(main_log'[1]) > Len(CurrentEntries)
    /\ Size(CurrentEntries) + main_log'[1][Len(CurrentEntries) + 1].bytes
          > max_log_file_size

\* C25: an append whose rotation fails (the file is left above the
\* threshold) returns to its caller after a bounded number of steps, and the
\* failure is logged by one diagnostic entry: the append writes its own
\* entry and at most one more.
RotationFailureLoggedOnce ==
    [][RotationFailed =>
          /\ Cardinality(Diagnostics) <= 1
          /\ audit_count' <= audit_count + 2]_vars

\* ---- the classifier: precedence of the families ------------------------------
\* the verdict of the first family, in the order diff, grep, find, test,
\* allow-list, complex, that the command text matches: "true" when its rule
\* grants success, "next" or "false" when it does not; "none": no family
FirstFamilyVerdict(command, return_code, output, error) ==
    LET command_lower == StripCommand(LowerCommand(command))
    IN  IF InCommand("diff", command_lower)
        THEN DiffRule(command_lower, return_code, output, error)
        ELSE IF InCommand("grep", command_lower)
        THEN GrepRule(command_lower, return_code, output, error)
        ELSE IF InCommand("find", command_lower)
        THEN FindRule(command_lower, return_code, output, error)
        ELSE IF StartsWith(command_lower, "[") \/ StartsWith(command_lower, "test")
        THEN TestRule(command_lower, return_code, output, error)
        ELSE IF \E cmd \in acceptable_nonzero_commands : InCommand(cmd, command_lower)
        THEN AllowRule(command_lower, return_code, output, error)
        ELSE IF IsComplexCommand(command)
        THEN ComplexRule(command, return_code, output, error)
        ELSE "none"

\* C26: the first family that the command text matches decides alone: the
\* result is true when its rule grants success and otherwise the default
\* (true exactly for return code 0), whatever the rules of the later
\* families say.
FirstFamilyDecides ==
    verdict.called =>
        verdict.success =
            IF FirstFamilyVerdict(verdict.command, verdict.return_code,
                                  verdict.output, verdict.error) = "true"
            THEN TRUE
            ELSE verdict.return_code = 0

\* ---- the timeout of a one-shot command --------------------------------------
\* C27: a command that exceeds its timeout is cancelled as stop_task cancels
\* a task: the termination signal first, the kill only after it (when the
\* process is still alive at the end of a grace period).
TimeoutEscalates ==
    exec.path = "timeout" =>
        exec.signals \in {<<"terminate">>, <<"terminate", "kill">>}

\* ---- the classifier on return code 0 ----------------------------------------
\* C28: whatever the command, stdout and stderr, the classifier returns true
\* for return code 0.
ZeroIsSuccess ==
    (verdict.called /\ verdict.return_code = 0) => verdict.success

\* a pipeline that wrote to stderr and ended with 0: no family grants
\* success, the default does
ZeroWithStderr ==
    /\ verdict.called
    /\ verdict.return_code = 0
    /\ verdict.command = <<"ls", "|">>
    /\ verdict.error = "err"
    /\ verdict.success

\* ---- the lines written before the exit --------------------------------------
\* the process of task o has exited and left at most max_log_lines lines
ExitedWithOutput(o) ==
    /\ o \in Objs
    /\ os_proc[o].state = "exited"
    /\ Len(out_file[tasks[o].task_id]) <= max_log_lines

\* every line of output.log is in the in-memory output log of task o
OutputCopied(o) ==
    /\ o \in Objs
    /\ tasks[o].output_log = StripAll(out_file[tasks[o].task_id])

\* C29: every line the process appended to output.log before it exited is
\* eventually in the task's in-memory output log, the lines written after
\* the watcher's last poll (the handler's shutdown line) included.
OutputEventuallyCopied ==
    \A o \in 1..MaxTasks : ExitedWithOutput(o) ~> OutputCopied(o)

\* ---- what stop_task hands to its caller -------------------------------------
\* C30: stop_task never raises: every call returns True or False, also the
\* call that finds the registry entry deleted by another call between its
\* membership test and its own lookup or del.
StopNeverRaises ==
    \A c \in Callers : calls[c].ret \in {"none", "True", "False"}
====
